---- MODULE Spec2Model ----
(***************************************************************************)
(* Model of the multi-document YAML pipeline of evanlouie/go:              *)
(*   pkg/yaml    Decode, DecodeMaps                                        *)
(*   pkg/helm    injectNamespace, injectNamespaceBack, cleanManifest,      *)
(*               Pull, Template, TemplateWithCRDs                          *)
(*   pkg/logger  the locked wrappers around the logrus standard logger     *)
(*                                                                         *)
(* A text is a non-empty sequence of lines (the text split on "\n"; the   *)
(* empty text is the single blank line).  A line is a record that keeps    *)
(* what the YAML scanner reads off it: its indentation, the kind of token  *)
(* it starts with, its key and its inline value token.                     *)
(***************************************************************************)
EXTENDS Integers, Sequences, FiniteSets, TLC

\* longest input text, in lines
MaxLines == 4

----------------------------------------------------------------------------
(* Lines of text *)

Sep == [tok |-> "sep", ind |-> 0, key |-> "", val |-> ""]

Blank == [tok |-> "blank", ind |-> 0, key |-> "", val |-> ""]

Entry(ind, key, val) == [tok |-> "entry", ind |-> ind, key |-> key, val |-> val]

Item(val) == [tok |-> "item", ind |-> 0, key |-> "", val |-> val]

Quoted(val) == [tok |-> "scalar", ind |-> 0, key |-> "", val |-> val]

BadLine == [tok |-> "bad", ind |-> 0, key |-> "", val |-> ""]

\* a line holding a plain (unquoted) scalar at column 0
Plain(val) == [tok |-> "plain", ind |-> 0, key |-> "", val |-> val]

\* The lines input texts are made of:
\*   ---  (blank)  kind: x  metadata:  metadata: x  metadata: {}
\*       namespace: other      namespace: ""      namespace: ~      name: x
\*   - x  "x"  a: b: c
Alphabet ==
    { Sep, Blank,
      Entry(0, "kind", "x"),
      Entry(0, "metadata", ""), Entry(0, "metadata", "x"), Entry(0, "metadata", "{}"),
      Entry(4, "namespace", "other"), Entry(4, "namespace", "\"\""),
      Entry(4, "namespace", "~"), Entry(4, "name", "x"),
      Item("x"), Quoted("\"x\""), BadLine }

SeqsUpTo(S, n) == UNION { [1..k -> S] : k \in 1..n }

Texts == SeqsUpTo(Alphabet, MaxLines)

----------------------------------------------------------------------------
(* Documents: the values yaml.v3 decodes into interface{} *)

Null == [tag |-> "null"]

Str(s) == [tag |-> "str", v |-> s]

List(s) == [tag |-> "seq", v |-> s]

Map(m) == [tag |-> "map", m |-> m]

Invalid == [tag |-> "invalid"]

\* the map with no keys
EmptyMap == << >>

\* the zero value of map[string]interface{}
NilMap == [tag |-> "nilmap"]

\* value of an inline scalar token
Resolve(t) ==
    CASE t \in {"", "~", "null"} -> Null
      [] t = "{}" -> Map(EmptyMap)
      [] t = "\"\"" -> Str("")
      [] t = "\"x\"" -> Str("x")
      [] t = "\"~\"" -> Str("~")
      [] OTHER -> Str(t)

----------------------------------------------------------------------------
(* The yaml.v3 decoder, on texts made of the lines above *)

NonBlank(text) == SelectSeq(text, LAMBDA l : l.tok # "blank")

\* position of the first `---` at or after i, Len+1 when there is none
NextSep(lines, i) ==
    IF \E j \in i..Len(lines) : lines[j].tok = "sep"
    THEN CHOOSE j \in i..Len(lines) :
            /\ lines[j].tok = "sep"
            /\ \A h \in i..(j - 1) : lines[h].tok # "sep"
    ELSE Len(lines) + 1

RECURSIVE DocsFrom(_, _)
\* the documents opened by the `---` at position i and by the later ones
DocsFrom(lines, i) ==
    LET e == NextSep(lines, i + 1)
    IN  << SubSeq(lines, i + 1, e - 1) >>
            \o (IF e > Len(lines) THEN << >> ELSE DocsFrom(lines, e))

\* the lines of each document of the stream: an implicit first document when
\* content precedes the first `---`, then one document per `---`
RawDocs(text) ==
    LET lines == NonBlank(text)
        e == NextSep(lines, 1)
    IN  (IF e > 1 THEN << SubSeq(lines, 1, e - 1) >> ELSE << >>)
            \o (IF e > Len(lines) THEN << >> ELSE DocsFrom(lines, e))

RECURSIVE ParseMapping(_, _, _, _, _)
\* block mapping at column 0: m holds the finished entries, open is the key
\* whose value is still being read ("" when none), sub that value so far
ParseMapping(lines, i, m, open, sub) ==
    LET closed == IF open = "" THEN m ELSE m @@ (open :> sub)
    IN  IF i > Len(lines) THEN Map(closed)
        ELSE LET l == lines[i] IN
             CASE l.tok = "entry" /\ l.ind = 0 ->
                    IF l.key \in DOMAIN closed THEN Invalid
                    ELSE IF l.val = ""
                         THEN ParseMapping(lines, i + 1, closed, l.key, Null)
                         ELSE ParseMapping(lines, i + 1,
                                  closed @@ (l.key :> Resolve(l.val)), "", Null)
               [] l.tok = "entry" /\ l.ind > 0 ->
                    IF open = "" \/ sub.tag \notin {"null", "map"} THEN Invalid
                    ELSE LET sm == IF sub.tag = "map" THEN sub.m ELSE EmptyMap IN
                         IF l.key \in DOMAIN sm THEN Invalid
                         ELSE ParseMapping(lines, i + 1, m, open,
                                  Map(sm @@ (l.key :> Resolve(l.val))))
               [] l.tok = "item" ->
                    IF open = "" \/ sub.tag \notin {"null", "seq"} THEN Invalid
                    ELSE ParseMapping(lines, i + 1, m, open,
                             List((IF sub.tag = "seq" THEN sub.v ELSE << >>)
                                      \o << Resolve(l.val) >>))
               [] OTHER -> Invalid

\* the characters of a line that a plain scalar running over it takes in
Chars(l) ==
    CASE l.tok = "item" -> IF l.val = "" THEN "-" ELSE "- " \o l.val
      [] OTHER -> l.val

RECURSIVE Fold(_, _)
\* a plain scalar goes on over the following lines, a line break folding
\* into one space
Fold(lines, i) ==
    IF i = Len(lines) THEN Chars(lines[i])
    ELSE Chars(lines[i]) \o " " \o Fold(lines, i + 1)

\* one document: Null, a scalar, a sequence, a mapping, or a syntax error
ParseDoc(lines) ==
    IF lines = << >> THEN Null
    ELSE LET l == lines[1] IN
         CASE l.tok = "scalar" ->
                IF Len(lines) = 1 THEN Resolve(l.val) ELSE Invalid
           [] l.tok = "plain" ->
                IF \A i \in 1..Len(lines) :
                        lines[i].tok \in {"plain", "item", "scalar"}
                THEN Str(Fold(lines, 1))
                ELSE Invalid
           [] l.tok = "item" ->
                IF \A i \in 1..Len(lines) : lines[i].tok = "item"
                THEN List([i \in 1..Len(lines) |-> Resolve(lines[i].val)])
                ELSE Invalid
           [] l.tok = "entry" /\ l.ind = 0 ->
                ParseMapping(lines, 1, EmptyMap, "", Null)
           [] l.tok = "entry" /\ l.ind > 0 ->
                IF \A i \in 1..Len(lines) :
                        lines[i].tok = "entry" /\ lines[i].ind = l.ind
                THEN ParseMapping([i \in 1..Len(lines) |->
                                      [lines[i] EXCEPT !.ind = 0]],
                                  1, EmptyMap, "", Null)
                ELSE Invalid
           [] OTHER -> Invalid

\* what successive decoder.Decode(&value) calls deliver before io.EOF
Stream(text) == LET raw == RawDocs(text) IN [i \in 1..Len(raw) |-> ParseDoc(raw[i])]

----------------------------------------------------------------------------
(* pkg/yaml *)

\* a nil slice; Go's len, range and append treat it as the empty slice
NilSlice == << >>

RECURSIVE DecodeLoopPartial(_, _, _)
\* variant: a syntax error returns the documents decoded before it
DecodeLoopPartial(stream, i, values) ==
    IF i > Len(stream) THEN [values |-> values, err |-> "nil"]
    ELSE IF stream[i] = Invalid
         THEN [values |-> values, err |-> "decoding yaml in yaml document"]
         ELSE DecodeLoopPartial(stream, i + 1, Append(values, stream[i]))

RECURSIVE DecodeLoop(_, _, _)
\* the for loop of Decode, at document i of the stream
DecodeLoop(stream, i, values) ==
    IF i > Len(stream) THEN [values |-> values, err |-> "nil"]
    ELSE IF stream[i] = Invalid
         THEN [values |-> NilSlice, err |-> "decoding yaml in yaml document"]
         ELSE DecodeLoop(stream, i + 1, Append(values, stream[i]))

Decode(doc) == DecodeLoop(Stream(doc), 1, NilSlice)

RECURSIVE ReflectLoopDropNil(_, _, _)
\* variant: a nil value contributes nothing
ReflectLoopDropNil(values, i, maps) ==
    IF i > Len(values) THEN [values |-> maps, err |-> "nil"]
    ELSE IF values[i] = Null
         THEN ReflectLoopDropNil(values, i + 1, maps)
         ELSE IF values[i].tag # "map"
              THEN [values |-> NilSlice, err |-> "unable to reflect value"]
              ELSE ReflectLoopDropNil(values, i + 1, Append(maps, values[i]))

RECURSIVE ReflectLoopSkipNonMap(_, _, _)
\* variant: a value that is not a map is passed over
ReflectLoopSkipNonMap(values, i, maps) ==
    IF i > Len(values) THEN [values |-> maps, err |-> "nil"]
    ELSE IF values[i] = Null
         THEN ReflectLoopSkipNonMap(values, i + 1, Append(maps, NilMap))
         ELSE IF values[i].tag # "map"
              THEN ReflectLoopSkipNonMap(values, i + 1, maps)
              ELSE ReflectLoopSkipNonMap(values, i + 1, Append(maps, values[i]))

RECURSIVE ReflectLoop(_, _, _)
\* the for loop of DecodeMaps, at value i
ReflectLoop(values, i, maps) ==
    IF i > Len(values) THEN [values |-> maps, err |-> "nil"]
    ELSE IF values[i] = Null
         THEN ReflectLoop(values, i + 1, Append(maps, NilMap))
         ELSE IF values[i].tag # "map"
              THEN [values |-> NilSlice, err |-> "unable to reflect value"]
              ELSE ReflectLoop(values, i + 1, Append(maps, values[i]))

DecodeMaps(doc) ==
    LET d == Decode(doc)
    IN  IF d.err # "nil" THEN [values |-> NilSlice, err |-> d.err]
        ELSE ReflectLoop(d.values, 1, NilSlice)

----------------------------------------------------------------------------
(* Text produced by yaml.Marshal and strings.Join *)

\* the empty string
EmptyText == << Blank >>

\* string concatenation of two texts: the last line of a and the first line
\* of b become one line
Concat(a, b) ==
    LET x == a[Len(a)]
        y == b[1]
        glued == CASE x = Blank -> y
                   [] y = Blank -> x
                   [] x = Sep /\ y = Item("") -> Plain("----")
                   [] x = Sep /\ y.tok = "entry" /\ y.ind = 0 /\ y.key = "kind" ->
                        [y EXCEPT !.key = "---kind"]
    IN  SubSeq(a, 1, Len(a) - 1) \o << glued >> \o Tail(b)

\* "\n---\n"
Divider == << Blank, Sep, Blank >>

RECURSIVE Join(_, _)
\* strings.Join
Join(elems, sep) ==
    IF elems = << >> THEN EmptyText
    ELSE IF Len(elems) = 1 THEN elems[1]
    ELSE Concat(elems[1], Concat(sep, Join(Tail(elems), sep)))

\* yaml.Marshal writes the keys of a map in sorted order
KeyOrder == << "kind", "metadata", "name", "namespace" >>

\* the token yaml.Marshal writes for a scalar or an empty map; a string that
\* would read back as something else is quoted
Emit(v) ==
    CASE v = Null -> "null"
      [] v.tag = "map" /\ DOMAIN v.m = {} -> "{}"
      [] v.tag = "str" /\ v.v = "" -> "\"\""
      [] v.tag = "str" /\ v.v \in {"~", "null", "{}"} -> "\"" \o v.v \o "\""
      [] v.tag = "str" -> v.v

RECURSIVE MarshalEntries(_, _, _)
\* the lines of the entries of map m whose keys are KeyOrder[k..], at column ind
MarshalEntries(m, k, ind) ==
    IF k > Len(KeyOrder) THEN << >>
    ELSE LET key == KeyOrder[k]
             rest == MarshalEntries(m, k + 1, ind)
         IN  IF key \notin DOMAIN m THEN rest
             ELSE IF m[key].tag = "map" /\ DOMAIN m[key].m # {}
                  THEN << Entry(ind, key, "") >>
                           \o MarshalEntries(m[key].m, 1, ind + 4) \o rest
                  ELSE << Entry(ind, key, Emit(m[key])) >> \o rest

\* yaml.Marshal of a non-nil map[string]interface{}; the text ends in "\n"
Marshal(manifest) ==
    (IF DOMAIN manifest.m = {} THEN << Quoted("{}") >>
     ELSE MarshalEntries(manifest.m, 1, 0)) \o << Blank >>

----------------------------------------------------------------------------
(* pkg/helm: injectNamespaceBack *)

\* m with m[key] set to v
Put(m, key, v) == [k \in DOMAIN m \cup {key} |-> IF k = key THEN v ELSE m[k]]

\* manifest[key] of a Go map: nil when the map is nil or the key is absent
Get(m, key) == IF key \in DOMAIN m THEN m[key] ELSE Null

\* variant: only a nil namespace is filled in, the empty string is kept
BackfillOneNilOnly(manifest, namespace) ==
    IF manifest = NilMap
    THEN [kind |-> "panic"]
    ELSE IF Get(manifest.m, "metadata") = Null
    THEN [kind |-> "ok",
          manifest |-> Map(Put(manifest.m, "metadata",
                               Map(Put(EmptyMap, "namespace", Str(namespace)))))]
    ELSE LET metadata == manifest.m["metadata"] IN
         IF metadata.tag # "map"
         THEN [kind |-> "err"]
         ELSE IF Get(metadata.m, "namespace") = Null
              THEN [kind |-> "ok",
                    manifest |-> Map(Put(manifest.m, "metadata",
                                     Map(Put(metadata.m, "namespace", Str(namespace)))))]
              ELSE [kind |-> "ok", manifest |-> manifest]

\* variant: a missing metadata becomes an empty map, as in injectNamespace,
\* and the namespace is not written into it
BackfillOneEmptyMetadata(manifest, namespace) ==
    IF manifest = NilMap
    THEN [kind |-> "panic"]
    ELSE IF Get(manifest.m, "metadata") = Null
    THEN [kind |-> "ok",
          manifest |-> Map(Put(manifest.m, "metadata", Map(EmptyMap)))]
    ELSE LET metadata == manifest.m["metadata"] IN
         IF metadata.tag # "map"
         THEN [kind |-> "err"]
         ELSE IF \/ Get(metadata.m, "namespace") = Null
                 \/ Get(metadata.m, "namespace") = Str("")
              THEN [kind |-> "ok",
                    manifest |-> Map(Put(manifest.m, "metadata",
                                     Map(Put(metadata.m, "namespace", Str(namespace)))))]
              ELSE [kind |-> "ok", manifest |-> manifest]

\* the body of the loop of injectNamespaceBack up to yaml.Marshal, for one
\* manifest: the manifest after it, an error, or a panic
BackfillOne(manifest, namespace) ==
    IF manifest = NilMap
    THEN \* manifest["metadata"] reads nil, the assignment hits a nil map
         [kind |-> "panic"]
    ELSE IF Get(manifest.m, "metadata") = Null
    THEN [kind |-> "ok",
          manifest |-> Map(Put(manifest.m, "metadata",
                               Map(Put(EmptyMap, "namespace", Str(namespace)))))]
    ELSE LET metadata == manifest.m["metadata"] IN
         IF metadata.tag # "map"
         THEN [kind |-> "err"]
         ELSE IF \/ Get(metadata.m, "namespace") = Null
                 \/ Get(metadata.m, "namespace") = Str("")
              THEN [kind |-> "ok",
                    manifest |-> Map(Put(manifest.m, "metadata",
                                     Map(Put(metadata.m, "namespace", Str(namespace)))))]
              ELSE [kind |-> "ok", manifest |-> manifest]

RECURSIVE BackfillLoop(_, _, _, _)
BackfillLoop(manifests, i, namespace, withInjectedNS) ==
    IF i > Len(manifests)
    THEN [text |-> Join(withInjectedNS, Divider), err |-> "nil", panic |-> FALSE]
    ELSE LET r == BackfillOne(manifests[i], namespace) IN
         CASE r.kind = "panic" ->
                [text |-> EmptyText, err |-> "nil", panic |-> TRUE]
           [] r.kind = "err" ->
                [text |-> EmptyText,
                 err |-> "\"metadata\" of manifest is not a map[string]interface{}",
                 panic |-> FALSE]
           [] r.kind = "ok" ->
                BackfillLoop(manifests, i + 1, namespace,
                             Append(withInjectedNS, Marshal(r.manifest)))

injectNamespaceBack(unifiedManifest, namespace) ==
    LET d == DecodeMaps(unifiedManifest)
    IN  IF d.err # "nil"
        THEN [text |-> EmptyText,
              err |-> "unmarshalling yaml into []map[string]interface{}",
              panic |-> FALSE]
        ELSE BackfillLoop(d.values, 1, namespace, NilSlice)

----------------------------------------------------------------------------
(* pkg/helm: injectNamespace, on manifests built by its caller.             *)
(* A Go map is a reference: heap[a] is the content of the map at address a, *)
(* a map held as a value is Ref(a), and the nil map is the address Nil.     *)

Nil == 0

Ref(a) == [tag |-> "ref", a |-> a]

\* variant: the empty string counts as no namespace, as in injectNamespaceBack
NamespaceSetNonEmpty(metadata) == Get(metadata, "namespace") \notin {Null, Str("")}

\* metadata["namespace"] != nil
NamespaceSet(metadata) == Get(metadata, "namespace") # Null

\* variant: the namespace is written before the collision is detected
injectNamespaceWriteFirst(h, manifest, namespace) ==
    IF manifest = Nil
    THEN [heap |-> h, ret |-> Nil, err |-> "nil"]
    ELSE LET h1 == IF "metadata" \notin DOMAIN h[manifest]
                   THEN Append([h EXCEPT ![manifest] =
                                    Put(@, "metadata", Ref(Len(h) + 1))],
                               EmptyMap)
                   ELSE h
             metadata == h1[manifest]["metadata"]
         IN  IF metadata.tag # "ref"
             THEN [heap |-> h1, ret |-> Nil,
                   err |-> "reflecting metadata of yaml manifest"]
             ELSE IF NamespaceSet(h1[metadata.a])
                  THEN [heap |-> [h1 EXCEPT ![metadata.a] =
                                      Put(@, "namespace", Str(namespace))],
                        ret |-> Nil,
                        err |-> "existing namespace found in yaml"]
                  ELSE [heap |-> [h1 EXCEPT ![metadata.a] =
                                      Put(@, "namespace", Str(namespace))],
                        ret |-> manifest, err |-> "nil"]

\* variant: the metadata map is replaced by one holding only the namespace,
\* as injectNamespaceBack does for a nil metadata
injectNamespaceFreshMetadata(h, manifest, namespace) ==
    IF manifest = Nil
    THEN [heap |-> h, ret |-> Nil, err |-> "nil"]
    ELSE LET h1 == IF "metadata" \notin DOMAIN h[manifest]
                   THEN Append([h EXCEPT ![manifest] =
                                    Put(@, "metadata", Ref(Len(h) + 1))],
                               EmptyMap)
                   ELSE h
             metadata == h1[manifest]["metadata"]
         IN  IF metadata.tag # "ref"
             THEN [heap |-> h1, ret |-> Nil,
                   err |-> "reflecting metadata of yaml manifest"]
             ELSE IF NamespaceSet(h1[metadata.a])
                  THEN [heap |-> h1, ret |-> Nil,
                        err |-> "existing namespace found in yaml"]
                  ELSE [heap |-> [h1 EXCEPT ![metadata.a] =
                                      Put(EmptyMap, "namespace", Str(namespace))],
                        ret |-> manifest, err |-> "nil"]

injectNamespace(h, manifest, namespace) ==
    IF manifest = Nil
    THEN [heap |-> h, ret |-> Nil, err |-> "nil"]
    ELSE LET \* inject the metadata map if it is not present
             h1 == IF "metadata" \notin DOMAIN h[manifest]
                   THEN Append([h EXCEPT ![manifest] =
                                    Put(@, "metadata", Ref(Len(h) + 1))],
                               EmptyMap)
                   ELSE h
             metadata == h1[manifest]["metadata"]
         IN  IF metadata.tag # "ref"
             THEN [heap |-> h1, ret |-> Nil,
                   err |-> "reflecting metadata of yaml manifest"]
             ELSE IF NamespaceSet(h1[metadata.a])
                  THEN [heap |-> h1, ret |-> Nil,
                        err |-> "existing namespace found in yaml"]
                  ELSE [heap |-> [h1 EXCEPT ![metadata.a] =
                                      Put(@, "namespace", Str(namespace))],
                        ret |-> manifest, err |-> "nil"]

----------------------------------------------------------------------------
(* Inputs *)

\* the namespace argument
Namespaces == {"ns1", "", "~"}

Absent == [tag |-> "absent"]

OptPut(m, key, v) == IF v = Absent THEN m ELSE Put(m, key, v)

\* metadata maps a caller may build
MetaMaps ==
    { OptPut(OptPut(EmptyMap, "name", n), "namespace", s) :
        n \in {Absent, Str("x")},
        s \in {Absent, Null, Str(""), Str("other"), Str("ns1")} }

\* the heaps a caller may pass a manifest in: no manifest at all, a manifest
\* (address 1) without a metadata map, a manifest whose metadata is the map
\* at address 2
Heaps ==
    { << >> }
    \cup { << OptPut(OptPut(EmptyMap, "kind", k), "metadata", md) >> :
             k \in {Absent, Null, Str("x")},
             md \in {Absent, Null, Str("x"), List(<< Str("x") >>)} }
    \cup { << OptPut(Put(EmptyMap, "metadata", Ref(2)), "kind", k), mm >> :
             k \in {Absent, Null, Str("x")}, mm \in MetaMaps }

----------------------------------------------------------------------------
(* State *)

VARIABLES
    input,   \* the text handed to Decode, DecodeMaps or injectNamespaceBack
    heap,    \* the maps of the caller of injectNamespace
    heap0,   \* the same maps as they were when the call was made
    call,    \* the call made: its name and its arguments
    ret,     \* what the call returned
    ret2,    \* what injectNamespaceBack returned on its own output
    local,   \* the local variables of the call
    dir,     \* the scratch directory of TemplateWithCRDs
    events,  \* the collaborators invoked so far, in order
    lock,    \* logger.lock: the goroutine holding it, 0 when free
    logrus,  \* the standard logger of logrus: its output and its level
    procs,   \* the logger call of each goroutine and its position in it
    written  \* the messages written so far, each with the stream it went to

vars == << input, heap, heap0, call, ret, ret2,
           local, dir, events, lock, logrus, procs, written >>

\* the variables of TemplateWithCRDs, Template and Pull
helmVars == << local, dir, events >>

\* the variables of package logger
loggerVars == << lock, logrus, procs, written >>

NoCall == [op |-> "none"]

NoRet == [err |-> "none"]

\* no helm call is running: no frame, no scratch directory, nothing invoked
HelmIdle ==
    /\ local = [pc |-> "none"]
    /\ dir = "none"
    /\ events = << >>

\* package logger after init(), with no goroutine in a call
LoggerIdle ==
    /\ lock = 0
    /\ logrus = [out |-> "stdout", level |-> "info"]
    /\ procs = << >>
    /\ written = << >>

InitYaml ==
    /\ input \in Texts
    /\ heap = << >>
    /\ heap0 = << >>
    /\ call = NoCall
    /\ ret = NoRet
    /\ ret2 = NoRet
    /\ HelmIdle
    /\ LoggerIdle

InitInject ==
    /\ input = EmptyText
    /\ heap \in Heaps
    /\ heap0 = heap
    /\ call = NoCall
    /\ ret = NoRet
    /\ ret2 = NoRet
    /\ HelmIdle
    /\ LoggerIdle

DecodeCall ==
    /\ call = NoCall
    /\ call' = [op |-> "Decode"]
    /\ ret' = Decode(input)
    /\ UNCHANGED << input, heap, heap0, ret2, helmVars, loggerVars >>

DecodeMapsCall ==
    /\ call = NoCall
    /\ call' = [op |-> "DecodeMaps"]
    /\ ret' = DecodeMaps(input)
    /\ UNCHANGED << input, heap, heap0, ret2, helmVars, loggerVars >>

InjectNamespaceBackCall ==
    /\ call = NoCall
    /\ \E namespace \in Namespaces :
          /\ call' = [op |-> "injectNamespaceBack", namespace |-> namespace]
          /\ ret' = injectNamespaceBack(input, namespace)
    /\ UNCHANGED << input, heap, heap0, ret2, helmVars, loggerVars >>

\* the caller feeds the text it got back through injectNamespaceBack again
InjectNamespaceBackAgain ==
    /\ call.op = "injectNamespaceBack"
    /\ ret.err = "nil" /\ ~ret.panic
    /\ call' = [call EXCEPT !.op = "injectNamespaceBack twice"]
    /\ ret2' = injectNamespaceBack(ret.text, call.namespace)
    /\ UNCHANGED << input, heap, heap0, ret, helmVars, loggerVars >>

InjectNamespaceCall ==
    /\ call = NoCall
    /\ \E namespace \in Namespaces :
          LET manifest == IF heap = << >> THEN Nil ELSE 1
              r == injectNamespace(heap, manifest, namespace)
          IN  /\ call' = [op |-> "injectNamespace", manifest |-> manifest,
                          namespace |-> namespace]
              /\ heap' = r.heap
              /\ ret' = [ret |-> r.ret, err |-> r.err]
    /\ UNCHANGED << input, heap0, ret2, helmVars, loggerVars >>

NextYaml ==
    \/ DecodeCall
    \/ DecodeMapsCall
    \/ InjectNamespaceBackCall
    \/ InjectNamespaceBackAgain

NextInject == InjectNamespaceCall

SpecYaml == InitYaml /\ [][NextYaml]_vars

SpecInject == InitInject /\ [][NextInject]_vars

----------------------------------------------------------------------------
(* pkg/yaml: Decode and DecodeMaps *)

\* C1: when DecodeMaps returns no error its result has one entry per document
\* of the stream, the i-th entry being the nil map if the i-th document is
\* Null and that document's mapping otherwise; a stream of no documents gives
\* the empty result and the text `---` gives exactly one nil entry.
C1_DecodeMapsPositional ==
    call.op = "DecodeMaps" =>
        LET docs == Stream(input) IN
        /\ ret.err = "nil" =>
              /\ Len(ret.values) = Len(docs)
              /\ \A i \in 1..Len(docs) :
                    IF docs[i] = Null
                    THEN ret.values[i] = NilMap
                    ELSE docs[i].tag = "map" /\ ret.values[i] = docs[i]
        /\ docs = << >> => ret = [values |-> << >>, err |-> "nil"]
        /\ input = << Sep >> => ret = [values |-> << NilMap >>, err |-> "nil"]

\* DecodeMaps has returned a nil placeholder next to a mapping
C1_Witness ==
    /\ call.op = "DecodeMaps"
    /\ ret.err = "nil"
    /\ \E i, j \in 1..Len(ret.values) :
          ret.values[i] = NilMap /\ ret.values[j].tag = "map"

\* C2: when some document of the stream is a Scalar or a Sequence, at any
\* position, DecodeMaps returns an error and a nil result.
C2_DecodeMapsRejectsNonMapping ==
    ( /\ call.op = "DecodeMaps"
      /\ \E i \in 1..Len(Stream(input)) : Stream(input)[i].tag \in {"str", "seq"} )
        => ret.err # "nil" /\ ret.values = NilSlice

\* DecodeMaps has been called on a stream of three documents whose first is
\* a mapping and whose second is a Sequence
C2_Witness ==
    /\ call.op = "DecodeMaps"
    /\ Len(Stream(input)) = 3
    /\ Stream(input)[1].tag = "map"
    /\ Stream(input)[2].tag = "seq"
    /\ Stream(input)[3] # Invalid

\* C3: Decode returns an error and a nil result when some document of the
\* stream is syntactically invalid, however many valid documents precede it;
\* otherwise reaching the end of the stream makes it return all the documents
\* in stream order and no error.
C3_DecodeAllOrNothing ==
    call.op = "Decode" =>
        IF \E i \in 1..Len(Stream(input)) : Stream(input)[i] = Invalid
        THEN ret.err # "nil" /\ ret.values = NilSlice
        ELSE ret.err = "nil" /\ ret.values = Stream(input)

\* Decode has met a syntax error after two valid documents
C3_Witness ==
    /\ call.op = "Decode"
    /\ Len(Stream(input)) >= 3
    /\ Stream(input)[1] # Invalid
    /\ Stream(input)[2] # Invalid
    /\ Stream(input)[3] = Invalid

----------------------------------------------------------------------------
(* pkg/helm: injectNamespace *)

\* the manifest was not nil and its metadata was the map at address 2
HadMetadataMap == heap0 # << >> /\ Get(heap0[1], "metadata") = Ref(2)

\* C4: for a non-nil manifest whose metadata mapping holds a non-null
\* namespace, the empty string included, injectNamespace returns an error and
\* a nil manifest and leaves the existing namespace in place.
C4_CollisionIsAnError ==
    ( /\ call.op = "injectNamespace"
      /\ HadMetadataMap
      /\ Get(heap0[2], "namespace") # Null )
        => /\ ret.err # "nil"
           /\ ret.ret = Nil
           /\ Get(heap[2], "namespace") = Get(heap0[2], "namespace")

\* injectNamespace has been called on a manifest whose namespace is ""
C4_Witness ==
    /\ call.op = "injectNamespace"
    /\ HadMetadataMap
    /\ Get(heap0[2], "namespace") = Str("")
    /\ call.namespace # ""

\* C5: when injectNamespace returns an error, every map of the caller is as
\* it was before the call: no metadata key was added and the metadata mapping
\* is unchanged.
C5_ErrorLeavesManifest ==
    (call.op = "injectNamespace" /\ ret.err # "nil") => heap = heap0

\* injectNamespace has failed on a namespace collision
C5_Witness ==
    /\ call.op = "injectNamespace"
    /\ ret.err = "existing namespace found in yaml"
    /\ Get(heap0[2], "namespace") # Str(call.namespace)

\* C6: for a non-nil manifest whose metadata is absent, or is a mapping with
\* no or a null namespace, injectNamespace returns no error and the manifest
\* it was given, in which metadata.namespace is the supplied namespace, every
\* other key of metadata and every other top-level key is as before, and an
\* absent metadata has become a map holding only the namespace.
C6_InjectsInPlace ==
    ( /\ call.op = "injectNamespace"
      /\ heap0 # << >>
      /\ \/ "metadata" \notin DOMAIN heap0[1]
         \/ HadMetadataMap /\ Get(heap0[2], "namespace") = Null )
        => /\ ret.err = "nil"
           /\ ret.ret = call.manifest
           /\ DOMAIN heap[1] = DOMAIN heap0[1] \cup {"metadata"}
           /\ \A k \in DOMAIN heap0[1] : heap[1][k] = heap0[1][k]
           /\ heap[1]["metadata"] = Ref(2)
           /\ heap[2]["namespace"] = Str(call.namespace)
           /\ IF "metadata" \notin DOMAIN heap0[1]
              THEN DOMAIN heap[2] = {"namespace"}
              ELSE /\ DOMAIN heap[2] = DOMAIN heap0[2] \cup {"namespace"}
                   /\ \A k \in DOMAIN heap0[2] \ {"namespace"} :
                         heap[2][k] = heap0[2][k]

\* injectNamespace has filled the namespace of a metadata map that holds
\* another key
C6_Witness ==
    /\ call.op = "injectNamespace"
    /\ HadMetadataMap
    /\ "name" \in DOMAIN heap0[2]
    /\ "namespace" \in DOMAIN heap0[2]
    /\ heap0[2]["namespace"] = Null
    /\ "kind" \in DOMAIN heap0[1]
    /\ ret.err = "nil"

----------------------------------------------------------------------------
(* pkg/helm: injectNamespaceBack *)

BackCalled == call.op \in {"injectNamespaceBack", "injectNamespaceBack twice"}

\* the maps DecodeMaps makes of a text it accepts
Manifests(text) == DecodeMaps(text).values

\* metadata.namespace of a manifest, Null when there is none
NamespaceOf(manifest) ==
    LET metadata == Get(manifest.m, "metadata")
    IN  IF metadata.tag = "map" THEN Get(metadata.m, "namespace") ELSE Null

\* C7: in injectNamespace and in injectNamespaceBack a manifest whose
\* metadata key is present with a value that is not a Mapping (a Scalar, a
\* Sequence or Null) makes the call return an error.
C7_NonMappingMetadataFails ==
    /\ ( /\ call.op = "injectNamespace"
         /\ heap0 # << >>
         /\ "metadata" \in DOMAIN heap0[1]
         /\ heap0[1]["metadata"].tag # "ref" )
           => ret.err # "nil"
    /\ ( /\ BackCalled
         /\ DecodeMaps(input).err = "nil"
         /\ \E i \in 1..Len(Manifests(input)) :
               /\ Manifests(input)[i] # NilMap
               /\ "metadata" \in DOMAIN Manifests(input)[i].m
               /\ Manifests(input)[i].m["metadata"].tag # "map" )
           => ret.err # "nil" /\ ~ret.panic

\* C8: injectNamespaceBack on a set of manifests (mappings whose metadata, if
\* any, is a mapping) raises no error; its output holds one manifest per
\* input manifest in the same order; a manifest whose namespace was missing,
\* null or "" carries the supplied namespace and is otherwise as it was, a
\* manifest with a non-empty namespace is as it was.
C8_BatchBackfills ==
    ( /\ BackCalled
      /\ DecodeMaps(input).err = "nil"
      /\ \A i \in 1..Len(Manifests(input)) :
            /\ Manifests(input)[i].tag = "map"
            /\ Get(Manifests(input)[i].m, "metadata").tag \in {"null", "map"} )
        => /\ ret.err = "nil" /\ ~ret.panic
           /\ DecodeMaps(ret.text).err = "nil"
           /\ Len(Manifests(ret.text)) = Len(Manifests(input))
           /\ \A i \in 1..Len(Manifests(input)) :
                 LET old == Manifests(input)[i]
                     new == Manifests(ret.text)[i]
                 IN  IF NamespaceOf(old) \in {Null, Str("")}
                     THEN /\ new.tag = "map"
                          /\ NamespaceOf(new) = Str(call.namespace)
                          /\ DOMAIN new.m = DOMAIN old.m \cup {"metadata"}
                          /\ \A k \in DOMAIN old.m \ {"metadata"} :
                                new.m[k] = old.m[k]
                          /\ Get(old.m, "metadata").tag = "map" =>
                                \A k \in DOMAIN old.m["metadata"].m \ {"namespace"} :
                                   Get(new.m["metadata"].m, k) = old.m["metadata"].m[k]
                     ELSE new = old

\* injectNamespaceBack has returned for a set holding a manifest with a
\* namespace of its own before a manifest without one
C8_Witness ==
    /\ call.op = "injectNamespaceBack"
    /\ ret.err = "nil" /\ ~ret.panic
    /\ Len(Manifests(input)) = 2
    /\ NamespaceOf(Manifests(input)[1]) = Str("other")
    /\ NamespaceOf(Manifests(input)[2]) = Null
    /\ call.namespace = "~"

\* C9: for a text injectNamespaceBack accepts, injectNamespaceBack of its
\* output with the same namespace succeeds and returns that output again.
C9_BackfillIdempotent ==
    call.op = "injectNamespaceBack twice" =>
        /\ ret2.err = "nil" /\ ~ret2.panic
        /\ ret2.text = ret.text

\* the second pass has run over an output that differs from the input text
\* and holds two manifests
C9_Witness ==
    /\ call.op = "injectNamespaceBack twice"
    /\ Len(Manifests(ret.text)) = 2
    /\ \E i \in 1..2 : NamespaceOf(Manifests(input)[i]) = Str("")
    /\ ret.text # input

\* C10: injectNamespaceBack always ends by returning a text or an error, also
\* when the decoded stream holds Null documents.
C10_BackAlwaysReturns ==
    BackCalled => ~ret.panic

----------------------------------------------------------------------------
(* pkg/helm: cleanManifest *)

\* the lines the texts handed to cleanManifest are made of:
\*   ---  (blank)  kind: x      name: x      namespace: other  - x
\*   ----  ---kind: x  a: b: c
CleanAlphabet ==
    { Sep, Blank,
      Entry(0, "kind", "x"),
      Entry(4, "name", "x"), Entry(4, "namespace", "other"),
      Item("x"), Plain("----"), Entry(0, "---kind", "x"), BadLine }

CleanTexts == SeqsUpTo(CleanAlphabet, MaxLines)

\* the line starts with the three characters `---`
StartsWithDashes(l) ==
    \/ l = Sep
    \/ l.tok = "plain" /\ l.val = "----"
    \/ l.tok = "entry" /\ l.ind = 0 /\ l.key = "---kind"

\* what is left of such a line behind its first three characters
AfterDashes(l) ==
    CASE l = Sep -> Blank
      [] l.tok = "plain" -> Item("")
      [] l.tok = "entry" -> [l EXCEPT !.key = "kind"]

\* "\n---"
DividerPrefix == << Blank, Sep >>

RECURSIVE SplitExactFrom(_, _, _)
\* variant: only a line that is `---` and nothing else is split at
SplitExactFrom(text, i, cur) ==
    IF i > Len(text) THEN << cur >>
    ELSE IF text[i] = Sep
         THEN << cur >> \o SplitExactFrom(text, i + 1, << AfterDashes(text[i]) >>)
         ELSE SplitExactFrom(text, i + 1, Append(cur, text[i]))

RECURSIVE SplitFrom(_, _, _)
\* strings.Split(text, "\n---") from line i on, cur being the fragment so
\* far: every line break followed by `---` ends the fragment, and what is
\* left of that line begins the next one
SplitFrom(text, i, cur) ==
    IF i > Len(text) THEN << cur >>
    ELSE IF StartsWithDashes(text[i])
         THEN << cur >> \o SplitFrom(text, i + 1, << AfterDashes(text[i]) >>)
         ELSE SplitFrom(text, i + 1, Append(cur, text[i]))

\* strings.TrimSpace: the blank lines at both ends go, and so does the
\* indentation of the first line that stays
TrimSpace(text) ==
    LET nb == { i \in 1..Len(text) : text[i] # Blank } IN
    IF nb = {} THEN EmptyText
    ELSE LET lo == CHOOSE i \in nb : \A j \in nb : i <= j
             hi == CHOOSE i \in nb : \A j \in nb : j <= i
         IN  [i \in 1..(hi - lo + 1) |->
                 IF i = 1 THEN [text[lo] EXCEPT !.ind = 0] ELSE text[lo + i - 1]]

\* the error of yaml.Unmarshal([]byte(entry), &m), m a map[string]interface{}:
\* the first document of the text is decoded, and only a mapping or a Null
\* document goes into a map
UnmarshalMap(entry) ==
    LET docs == Stream(entry) IN
    IF docs = << >> \/ docs[1] = Null \/ docs[1].tag = "map" THEN "nil"
    ELSE "yaml: unmarshal errors"

RECURSIVE CleanLoopKeepBlank(_, _, _)
\* variant: a fragment is kept whenever it parses
CleanLoopKeepBlank(manifests, i, cleaned) ==
    IF i > Len(manifests) THEN cleaned
    ELSE IF UnmarshalMap(manifests[i]) # "nil"
         THEN CleanLoopKeepBlank(manifests, i + 1, cleaned)
         ELSE CleanLoopKeepBlank(manifests, i + 1, Append(cleaned, manifests[i]))

RECURSIVE CleanLoop(_, _, _)
\* the for loop of cleanManifest, at fragment i
CleanLoop(manifests, i, cleaned) ==
    IF i > Len(manifests) THEN cleaned
    ELSE IF UnmarshalMap(manifests[i]) # "nil"
         THEN CleanLoop(manifests, i + 1, cleaned)
         ELSE IF TrimSpace(manifests[i]) # EmptyText
              THEN CleanLoop(manifests, i + 1, Append(cleaned, manifests[i]))
              ELSE CleanLoop(manifests, i + 1, cleaned)

cleanManifest(manifest) ==
    LET manifests == SplitFrom(manifest, 2, << manifest[1] >>)
        cleaned == CleanLoop(manifests, 1, NilSlice)
        joined == TrimSpace(Join(cleaned, DividerPrefix))
    IN  [text |-> joined, err |-> "nil", manifests |-> manifests]

InitClean ==
    /\ input \in CleanTexts
    /\ heap = << >>
    /\ heap0 = << >>
    /\ call = NoCall
    /\ ret = NoRet
    /\ ret2 = NoRet
    /\ HelmIdle
    /\ LoggerIdle

CleanManifestCall ==
    /\ call = NoCall
    /\ LET r == cleanManifest(input) IN
          /\ call' = [op |-> "cleanManifest"]
          /\ ret' = [text |-> r.text, err |-> r.err]
          /\ local' = [pc |-> "done", manifests |-> r.manifests]
    /\ UNCHANGED << input, heap, heap0, ret2, dir, events, loggerVars >>

NextClean == CleanManifestCall

SpecClean == InitClean /\ [][NextClean]_vars

\* the fragment gets through the mapping-shaped parse: it holds no syntax
\* error and no scalar or sequence document
ParsesAsMapping(fragment) ==
    \A i \in 1..Len(Stream(fragment)) :
        Stream(fragment)[i] = Null \/ Stream(fragment)[i].tag = "map"

\* the fragment is more than white space
NotBlank(fragment) == \E i \in 1..Len(fragment) : fragment[i] # Blank

LongerLines == { Plain("----"), Entry(0, "---kind", "x") }

\* C12: cleanManifest splits its input only at lines that are exactly `---`,
\* the first line included; a line that merely starts with `---` stays
\* inside its fragment.
C12_SplitsOnlyAtMarkerLines ==
    call.op = "cleanManifest" =>
        /\ Len(local.manifests)
              = 1 + Cardinality({ i \in 1..Len(input) : input[i] = Sep })
        /\ \A i \in 1..Len(input) :
              input[i] \in LongerLines =>
                  \E f \in 1..Len(local.manifests) :
                      \E j \in 1..Len(local.manifests[f]) :
                          local.manifests[f][j] = input[i]

\* C12, amended: cleanManifest splits its input at every line break that is
\* followed by `---`: a line after the first that starts with `---` ends the
\* fragment whatever follows on it, the rest of that line beginning the next
\* fragment, and a `---` on the first line is no boundary.  The fragments
\* joined by "\n---" are the input again.
C12_SplitsAtEveryDashedLine ==
    call.op = "cleanManifest" =>
        /\ Len(local.manifests)
              = 1 + Cardinality({ i \in 2..Len(input) : StartsWithDashes(input[i]) })
        /\ Join(local.manifests, DividerPrefix) = input
        /\ \A f \in 1..Len(local.manifests) :
              \A j \in 2..Len(local.manifests[f]) :
                  ~StartsWithDashes(local.manifests[f][j])
        /\ local.manifests[1][1] = input[1]

\* a call on a text that begins with `---` and has a `----` line further on
C12_Witness ==
    /\ call.op = "cleanManifest"
    /\ input[1] = Sep
    /\ \E i \in 2..Len(input) : input[i] \in LongerLines
    /\ \E i \in 2..Len(input) : input[i] = Sep

----------------------------------------------------------------------------
(* pkg/helm: Pull, Template, TemplateWithCRDs *)

\* most files walked in the crds directory
MaxFiles == 2

\* an error: the messages of its wrapping layers, outermost first, each with
\* the identifiers its message is formatted with; no layer, no error
NoError == << >>

Layer(msg, names) == [msg |-> msg, names |-> names]

\* fmt.Errorf("msg ...: %w", ..., cause)
Wrap(msg, names, cause) == << Layer(msg, names) >> \o cause

\* a collaborator invoked: its name, its arguments, how it came out
Ev(name, args, out) == [name |-> name, args |-> args, out |-> out]

\* path.Join and filepath.Join of two clean elements: an empty element is
\* left out, the others are joined by one slash
PathJoin(a, b) ==
    IF a = "" THEN b ELSE IF b = "" THEN a ELSE a \o "/" \o b

\* what FindRepoNameByURL may return: an alias, no alias, an error
Lookups ==
    { [alias |-> "stable", ok |-> TRUE],
      [alias |-> "", ok |-> TRUE],
      [alias |-> "", ok |-> FALSE] }

LookupOut(found) == IF found.ok THEN found.alias ELSE "error"

Pull(repoURL, chart, version, into, found, run) ==
    LET lookup == Ev("FindRepoNameByURL", << repoURL >>, LookupOut(found))
        chart2 == IF found.alias # "" THEN PathJoin(found.alias, chart) ELSE chart
        repo2 == IF found.alias # "" THEN "" ELSE repoURL
        pullArgs == << "pull", chart2, "--untar", "--untardir", into >>
                      \o (IF version # "" THEN << "--version", version >> ELSE << >>)
                      \o (IF repo2 # "" THEN << "--repo", repo2 >> ELSE << >>)
    IN  IF ~found.ok
        THEN [events |-> << lookup >>,
              err |-> << Layer("repository lookup failed", {}) >>]
        ELSE [events |-> << lookup, Ev("helm", pullArgs, run) >>,
              err |-> IF run = "ok" THEN NoError
                      ELSE Wrap(": stderr", {}, << Layer("exit status 1", {}) >>)]

RECURSIVE Flags(_, _)
\* one `flag value` pair per value
Flags(flag, values) ==
    IF values = << >> THEN << >>
    ELSE << flag, Head(values) >> \o Flags(flag, Tail(values))

\* variant: the alias and the chart are joined as a path
TemplateChartJoined(opts, found) ==
    IF opts.Repo # "" /\ found.alias # ""
    THEN PathJoin(found.alias, opts.Chart)
    ELSE opts.Chart

\* opts.Chart as Template hands it to helm
TemplateChart(opts, found) ==
    IF opts.Repo # "" /\ found.alias # ""
    THEN found.alias \o "/" \o opts.Chart
    ELSE opts.Chart

\* Template, given what FindRepoNameByURL returns (found) and how the helm
\* process comes out (run, stdout)
Template(opts, found, run, stdout) ==
    LET lookup == Ev("FindRepoNameByURL", << opts.Repo >>, LookupOut(found))
        resolved == opts.Repo # "" /\ found.alias # ""
        chart == TemplateChart(opts, found)
        templateArgs ==
            << "template" >>
              \o (IF opts.Repo # "" /\ ~resolved THEN << "--repo", opts.Repo >> ELSE << >>)
              \o (IF opts.Namespace # ""
                  THEN << "--create-namespace", "--namespace", opts.Namespace >>
                  ELSE << >>)
              \o Flags("--set", opts.Set)
              \o Flags("--values", opts.Values)
              \o (IF opts.Release # "" THEN << opts.Release >> ELSE << >>)
              \o << chart >>
        helm == Ev("helm", templateArgs, run)
        before == IF opts.Repo # "" THEN << lookup >> ELSE << >>
    IN  IF opts.Repo # "" /\ ~found.ok
        THEN [events |-> before, text |-> EmptyText,
              err |-> Wrap("searching existing helm repositories for",
                           { << "repo", opts.Repo >> },
                           << Layer("repository lookup failed", {}) >>)]
        ELSE [events |-> Append(before, helm),
              text |-> IF run = "ok" THEN stdout ELSE EmptyText,
              err |-> CASE run = "ok" -> NoError
                        [] run = "failed" ->
                             << Layer("running helm: exit status 1: stderr", {}) >>
                        [] run = "stderr" ->
                             << Layer("helm exited with output to stderr", {}) >>]

\* the directory os.MkdirTemp("", "fabrikate") makes
TmpDir == "/tmp/fabrikate1"

Repos == { "", "https://charts.example" }

Charts == { "nginx", "" }

\* the TemplateOptions a caller may pass
Options ==
    [ Release : { "", "rel" }, Chart : Charts, Repo : Repos,
      Version : { "", "1.0" }, Namespace : { "", "ns1" },
      Values : { << >>, << "values.yaml" >> }, Set : { << >>, << "a=b" >> } ]

\* the ones TemplateWithCRDs is run on
CRDOptions ==
    { o \in Options : /\ o.Release = "rel" /\ o.Version = "1.0" /\ o.Namespace = ""
                      /\ o.Values = << >> /\ o.Set = << >> }

\* contents of the files of a crds directory, and outputs of `helm template`:
\*   one manifest; another; two documents; nothing; a sequence; a syntax
\*   error; an indented mapping
HelmTexts ==
    { << Entry(0, "kind", "x"), Blank >>,
      << Entry(0, "metadata", "x") >>,
      << Entry(0, "kind", "x"), Sep, Entry(0, "metadata", "x"), Blank >>,
      EmptyText,
      << Item("x") >>,
      << BadLine >>,
      << Entry(4, "name", "x"), Entry(4, "namespace", "other") >> }

\* what filepath.Walk may come upon below the crds directory: a file with
\* its extension and content, a directory, a file that cannot be read
\* (err "read"), a path that cannot be visited (err "lstat")
DirEntries ==
    { [ext |-> ".yaml", isDir |-> FALSE, content |-> t, err |-> "nil"] : t \in HelmTexts }
    \cup { [ext |-> ".YAML", isDir |-> FALSE,
            content |-> << Entry(0, "metadata", "x") >>, err |-> "nil"],
           [ext |-> ".yml", isDir |-> FALSE,
            content |-> << Entry(0, "metadata", "x") >>, err |-> "nil"],
           [ext |-> ".yaml", isDir |-> TRUE, content |-> EmptyText, err |-> "nil"],
           [ext |-> ".yaml", isDir |-> FALSE, content |-> EmptyText, err |-> "read"],
           [ext |-> "", isDir |-> FALSE, content |-> EmptyText, err |-> "lstat"] }

\* the paths below the crds directory, in the order filepath.Walk visits them
Listings == { << >> } \cup SeqsUpTo(DirEntries, MaxFiles)

\* strings.ToLower of a file extension
ToLower(ext) == IF ext = ".YAML" THEN ".yaml" ELSE ext

RECURSIVE WalkLoop(_, _, _)
\* the callback of filepath.Walk on the paths from the i-th on; the first
\* error it returns ends the walk
WalkLoop(listing, i, crds) ==
    IF i > Len(listing) THEN [crds |-> crds, err |-> NoError]
    ELSE LET info == listing[i] IN
         IF info.err = "lstat"
         THEN [crds |-> crds,
               err |-> Wrap("walking path", { << "path", "entry" >> },
                            << Layer("lstat: permission denied", {}) >>)]
         ELSE IF ~info.isDir /\ ToLower(info.ext) = ".yaml"
              THEN IF info.err = "read"
                   THEN [crds |-> crds,
                         err |-> Wrap("reading CRD file", { << "path", "entry" >> },
                                      << Layer("read: permission denied", {}) >>)]
                   ELSE WalkLoop(listing, i + 1, Append(crds, info.content))
              ELSE WalkLoop(listing, i + 1, crds)

\* variant: the templated text comes first
AllYAMLEntriesTemplateFirst(crds, template) == << template >> \o crds

\* append(crds, template)
AllYAMLEntries(crds, template) == Append(crds, template)

\* variant: every entry is kept
NoNilsKeepAll(maps) == maps

\* the maps that are not nil, in order
NoNils(maps) == SelectSeq(maps, LAMBDA m : m # NilMap)

\* variant: the stages run in the order of the overview
ThenTemplateFirst(pc) ==
    CASE pc = "mkdir" -> "pull"
      [] pc = "pull" -> "template"
      [] pc = "template" -> "stat"
      [] pc = "stat" -> "walk"
      [] pc = "walk" -> "join"
      [] pc = "join" -> "decode"
      [] pc = "decode" -> "filter"
      [] pc = "filter" -> "done"

\* the statement of TemplateWithCRDs that follows statement pc
Then(pc) ==
    CASE pc = "mkdir" -> "pull"
      [] pc = "pull" -> "stat"
      [] pc = "stat" -> "walk"
      [] pc = "walk" -> "template"
      [] pc = "template" -> "join"
      [] pc = "join" -> "decode"
      [] pc = "decode" -> "filter"
      [] pc = "filter" -> "done"

\* variant: nothing is deferred
AtReturnNoDefer(frame, d) == d

\* the scratch directory once the deferred os.RemoveAll(tmpDir) has run
AtReturn(frame, d) == IF frame.deferred THEN "removed" ELSE d

\* variant: the error of Template is returned as it is
TemplatingErrorBare(chart, cause) == cause

TemplatingError(chart, cause) ==
    Wrap("templating helm chart at", { << "chart", chart >> }, cause)

MkdirError(opts, cause) ==
    Wrap("creating temporary directory to pull helm chart",
         { << "chart", opts.Chart >>, << "version", opts.Version >>,
           << "repo", opts.Repo >> }, cause)

PullingError(opts, cause) ==
    Wrap("pulling helm chart",
         { << "chart", opts.Chart >>, << "version", opts.Version >>,
           << "repo", opts.Repo >> }, cause)

WalkingError(crdPath, cause) ==
    Wrap("walking CRD path", { << "crds path", crdPath >> }, cause)

StatError(crdPath, cause) ==
    Wrap("reading helm chart CRD directory", { << "crds path", crdPath >> }, cause)

\* the error of DecodeMaps carries the text (Decode) or the value (the type
\* assertion) it failed on
ParsingError(cause) ==
    Wrap("parsing output of \"helm template\"", {},
         << Layer(cause, { << "yaml", "document or value" >> }) >>)

\* TemplateWithCRDs is at statement pc
Running(pc) == call.op = "TemplateWithCRDs" /\ local.pc = pc

\* return nil, err
Fail(frame, stage, err) ==
    /\ local' = [frame EXCEPT !.pc = "done", !.stage = stage]
    /\ ret' = [values |-> NilSlice, err |-> err]
    /\ dir' = AtReturn(frame, dir)

\* statement pc is done and the next one is up
Step(frame, stage) ==
    /\ local' = [frame EXCEPT !.pc = Then(stage), !.stage = stage]
    /\ UNCHANGED ret

InitHelm ==
    /\ input = EmptyText
    /\ heap = << >>
    /\ heap0 = << >>
    /\ call = NoCall
    /\ ret = NoRet
    /\ ret2 = NoRet
    /\ HelmIdle
    /\ LoggerIdle

TemplateWithCRDsCall ==
    /\ call = NoCall
    /\ \E opts \in CRDOptions :
          /\ call' = [op |-> "TemplateWithCRDs", opts |-> opts]
          /\ local' = [pc |-> IF opts.Repo # "" THEN "mkdir" ELSE "stat",
                       stage |-> "", deferred |-> FALSE,
                       chartPath |-> IF opts.Repo # "" THEN "" ELSE opts.Chart,
                       crdPath |-> IF opts.Repo # "" THEN ""
                                   ELSE PathJoin(opts.Chart, "crds"),
                       listing |-> << >>, crds |-> NilSlice,
                       template |-> EmptyText, unified |-> EmptyText,
                       maps |-> NilSlice]
    /\ UNCHANGED << input, heap, heap0, ret, ret2, dir, events, loggerVars >>

MkdirTemp ==
    /\ Running("mkdir")
    /\ \E ok \in BOOLEAN :
          /\ events' = Append(events, Ev("os.MkdirTemp", << "fabrikate" >>,
                                          IF ok THEN TmpDir ELSE "error"))
          /\ IF ok
             THEN /\ Step([local EXCEPT !.deferred = TRUE], "mkdir")
                  /\ dir' = "exists"
             ELSE Fail(local, "mkdir",
                       MkdirError(call.opts, << Layer("mkdir: no space left", {}) >>))
    /\ UNCHANGED << input, heap, heap0, call, ret2, loggerVars >>

PullStep ==
    /\ Running("pull")
    /\ \E found \in Lookups, run \in { "ok", "failed" } :
          LET r == Pull(call.opts.Repo, call.opts.Chart, call.opts.Version,
                        TmpDir, found, run)
              chartPath == PathJoin(TmpDir, call.opts.Chart)
          IN  /\ events' = Append(events, Ev("Pull", << call.opts.Chart >>, "")) \o r.events
              /\ IF r.err = NoError
                 THEN /\ Step([local EXCEPT !.chartPath = chartPath,
                                           !.crdPath = PathJoin(chartPath, "crds")],
                              "pull")
                      /\ UNCHANGED dir
                 ELSE Fail(local, "pull", PullingError(call.opts, r.err))
    /\ UNCHANGED << input, heap, heap0, call, ret2, loggerVars >>

StatStep ==
    /\ Running("stat")
    /\ \E info \in { "dir", "file", "not exist", "error" } :
          /\ events' = Append(events, Ev("os.Stat", << local.crdPath >>, info))
          /\ CASE info = "dir" ->
                    Step(local, "stat") /\ UNCHANGED dir
               [] info \in { "file", "not exist" } ->
                    /\ local' = [local EXCEPT !.pc = Then("walk"), !.stage = "stat"]
                    /\ UNCHANGED << ret, dir >>
               [] info = "error" ->
                    Fail(local, "stat",
                         StatError(local.crdPath,
                                   << Layer("stat: permission denied", {}) >>))
    /\ UNCHANGED << input, heap, heap0, call, ret2, loggerVars >>

WalkStep ==
    /\ Running("walk")
    /\ \E listing \in Listings :
          LET w == WalkLoop(listing, 1, NilSlice)
              frame == [local EXCEPT !.listing = listing, !.crds = w.crds]
          IN  /\ events' = Append(events, Ev("filepath.Walk", << local.crdPath >>,
                                              IF w.err = NoError THEN "ok" ELSE "error"))
              /\ IF w.err = NoError
                 THEN Step(frame, "walk") /\ UNCHANGED dir
                 ELSE Fail(frame, "walk", WalkingError(local.crdPath, w.err))
    /\ UNCHANGED << input, heap, heap0, call, ret2, loggerVars >>

TemplateStep ==
    /\ Running("template")
    /\ \E found \in Lookups, run \in { "ok", "failed", "stderr" }, stdout \in HelmTexts :
          LET templateOpts == [call.opts EXCEPT !.Repo = "", !.Chart = local.chartPath]
              r == Template(templateOpts, found, run, stdout)
          IN  /\ events' = Append(events, Ev("Template", << templateOpts.Chart >>, ""))
                               \o r.events
              /\ IF r.err = NoError
                 THEN Step([local EXCEPT !.template = r.text], "template")
                      /\ UNCHANGED dir
                 ELSE Fail(local, "template",
                           TemplatingError(templateOpts.Chart, r.err))
    /\ UNCHANGED << input, heap, heap0, call, ret2, loggerVars >>

JoinStep ==
    /\ Running("join")
    /\ events' = Append(events, Ev("strings.Join", << >>, ""))
    /\ Step([local EXCEPT !.unified =
                 TrimSpace(Join(AllYAMLEntries(local.crds, local.template), Divider))],
            "join")
    /\ UNCHANGED << input, heap, heap0, call, ret2, dir, loggerVars >>

DecodeStep ==
    /\ Running("decode")
    /\ LET d == DecodeMaps(local.unified) IN
          /\ events' = Append(events, Ev("DecodeMaps", << >>,
                                          IF d.err = "nil" THEN "ok" ELSE "error"))
          /\ IF d.err = "nil"
             THEN Step([local EXCEPT !.maps = d.values], "decode") /\ UNCHANGED dir
             ELSE Fail(local, "decode", ParsingError(d.err))
    /\ UNCHANGED << input, heap, heap0, call, ret2, loggerVars >>

FilterStep ==
    /\ Running("filter")
    /\ events' = Append(events, Ev("noNils", << >>, ""))
    /\ local' = [local EXCEPT !.pc = Then("filter"), !.stage = "filter"]
    /\ ret' = [values |-> NoNils(local.maps), err |-> NoError]
    /\ dir' = AtReturn(local, dir)
    /\ UNCHANGED << input, heap, heap0, call, ret2, loggerVars >>

TemplateCall ==
    /\ call = NoCall
    /\ \E opts \in Options, found \in Lookups,
          run \in { "ok", "failed", "stderr" }, stdout \in HelmTexts :
          LET r == Template(opts, found, run, stdout) IN
          /\ call' = [op |-> "Template", opts |-> opts]
          /\ events' = r.events
          /\ ret' = [text |-> r.text, err |-> r.err]
    /\ UNCHANGED << input, heap, heap0, ret2, local, dir, loggerVars >>

PullCall ==
    /\ call = NoCall
    /\ \E repoURL \in Repos, chart \in Charts, version \in { "", "1.0" },
          found \in Lookups, run \in { "ok", "failed" } :
          LET r == Pull(repoURL, chart, version, "into", found, run) IN
          /\ call' = [op |-> "Pull",
                      opts |-> [Repo |-> repoURL, Chart |-> chart, Version |-> version]]
          /\ events' = r.events
          /\ ret' = [err |-> r.err]
    /\ UNCHANGED << input, heap, heap0, ret2, local, dir, loggerVars >>

NextHelm ==
    \/ TemplateWithCRDsCall
    \/ MkdirTemp
    \/ PullStep
    \/ StatStep
    \/ WalkStep
    \/ TemplateStep
    \/ JoinStep
    \/ DecodeStep
    \/ FilterStep
    \/ TemplateCall
    \/ PullCall

SpecHelm == InitHelm /\ [][NextHelm]_vars

\* TemplateWithCRDs has returned
Returned == call.op = "TemplateWithCRDs" /\ local.pc = "done"

\* the files of the walk whose content TemplateWithCRDs is to collect
YamlFiles == SelectSeq(local.listing,
                 LAMBDA e : ~e.isDir /\ e.ext \in { ".yaml", ".YAML" })

\* the texts that make up the unified text, in the order claimed: the files
\* in walk order, then the templated text; the white space in front of the
\* whole is trimmed off the first of them
Pieces ==
    LET all == [i \in 1..Len(YamlFiles) |-> YamlFiles[i].content]
                   \o << local.template >>
    IN  [i \in 1..Len(all) |-> IF i = 1 THEN TrimSpace(all[1]) ELSE all[i]]

\* the manifests of one text, in document order
ManifestsOf(text) == SelectSeq(Stream(text), LAMBDA d : d # Null)

RECURSIVE Flatten(_)
Flatten(seqs) == IF seqs = << >> THEN << >> ELSE Head(seqs) \o Flatten(Tail(seqs))

\* C13: the ManifestSet of a successful TemplateWithCRDs is the manifests of
\* the crds files, file after file in walk order, followed by the manifests
\* of the templated text, each text's manifests in document order.
C13_CrdsFirst ==
    (Returned /\ ret.err = NoError) =>
        ret.values = Flatten([i \in 1..Len(Pieces) |-> ManifestsOf(Pieces[i])])

\* a successful call with two crds files of different manifests and a
\* templated text with a manifest of its own
C13_Witness ==
    /\ Returned /\ ret.err = NoError
    /\ Len(YamlFiles) = 2
    /\ \A i \in 1..3 : ManifestsOf(Pieces[i]) # << >>
    /\ ManifestsOf(Pieces[1]) # ManifestsOf(Pieces[2])
    /\ ManifestsOf(Pieces[2]) # ManifestsOf(Pieces[3])

\* C14: the result of TemplateWithCRDs holds no nil entry and is the
\* projected sequence without its nil entries, in order; when the decoding
\* stage fails, some document of the unified text is a syntax error, a scalar
\* or a sequence, so Null documents alone never make the call fail.
C14_NoNilEntries ==
    Returned =>
        /\ ret.err = NoError =>
              /\ \A i \in 1..Len(ret.values) : ret.values[i] # NilMap
              /\ local.maps = DecodeMaps(local.unified).values
              /\ ret.values = SelectSeq(local.maps, LAMBDA m : m # NilMap)
        /\ local.stage = "decode" =>
              \E i \in 1..Len(Stream(local.unified)) :
                  /\ Stream(local.unified)[i] # Null
                  /\ Stream(local.unified)[i].tag # "map"

\* a successful call whose projected sequence has a nil entry among maps
C14_Witness ==
    /\ Returned /\ ret.err = NoError
    /\ \E i \in 1..Len(local.maps) : local.maps[i] = NilMap
    /\ ret.values # << >>
    /\ Len(ret.values) < Len(local.maps)

\* the scratch directory was created in this call
Created == \E i \in 1..Len(events) :
              events[i].name = "os.MkdirTemp" /\ events[i].out = TmpDir

\* C15: when TemplateWithCRDs, called with a repository URL, has created its
\* scratch directory, the directory is gone when the call returns, whatever
\* the stage it returns from.
C15_ScratchRemoved ==
    Returned =>
        /\ (call.opts.Repo # "" /\ Created) => dir = "removed"
        /\ dir # "exists"

\* a call that made the directory and failed in the decoding stage
C15_Witness ==
    /\ Returned /\ Created
    /\ local.stage = "decode" /\ ret.err # NoError
    /\ dir = "removed"

\* the message names the chart: its reference, its path or its crds path
NamesChart(layer) == \E n \in layer.names : n[1] \in { "chart", "crds path" }

\* C16: every error TemplateWithCRDs returns is a wrapped error that
\* identifies the chart location, and a malformed crds file is told apart
\* from malformed templated output: the error of the decoding stage means
\* that the crds files were well formed.
C16_ErrorsNameChart ==
    (Returned /\ ret.err # NoError) =>
        /\ Len(ret.err) >= 2
        /\ NamesChart(ret.err[1])
        /\ local.stage = "decode" =>
              \A i \in 1..Len(local.crds) : DecodeMaps(local.crds[i]).err = "nil"

\* the message TemplateWithCRDs wraps the error of a stage in
StageMessage(stage) ==
    CASE stage = "mkdir" -> "creating temporary directory to pull helm chart"
      [] stage = "pull" -> "pulling helm chart"
      [] stage = "stat" -> "reading helm chart CRD directory"
      [] stage = "walk" -> "walking CRD path"
      [] stage = "template" -> "templating helm chart at"
      [] stage = "decode" -> "parsing output of \"helm template\""

\* C16, amended: every error TemplateWithCRDs returns is a wrapped error
\* whose message names the stage that failed; the errors of the stages up to
\* the Templater identify the chart, the error of the decoding stage carries
\* the offending text or value and no chart location, whether the malformed
\* text came from a crds file or from the Templater.
C16_ErrorsNameStage ==
    (Returned /\ ret.err # NoError) =>
        /\ Len(ret.err) >= 2
        /\ ret.err[1].msg = StageMessage(local.stage)
        /\ local.stage # "decode" => NamesChart(ret.err[1])
        /\ local.stage = "decode" =>
              /\ ret.err[1].names = {}
              /\ ret.err[2].names = { << "yaml", "document or value" >> }

\* the decoding stage fails on a malformed crds file, the templated text
\* being well formed
C16_Witness ==
    /\ Returned /\ local.stage = "decode" /\ ret.err # NoError
    /\ \E i \in 1..Len(local.crds) : DecodeMaps(local.crds[i]).err # "nil"
    /\ DecodeMaps(local.template).err = "nil"

\* the invocations of the helm executable
HelmRuns == SelectSeq(events, LAMBDA e : e.name = "helm")

\* the lookups of the repository resolver
LookupRuns == SelectSeq(events, LAMBDA e : e.name = "FindRepoNameByURL")

\* the chart argument of a helm invocation: the last argument of
\* `helm template`, the one behind `pull` of `helm pull`
ChartArg(e) == IF e.args[1] = "pull" THEN e.args[2] ELSE e.args[Len(e.args)]

\* how often --repo is among the arguments
RepoFlags(e) == Cardinality({ i \in 1..Len(e.args) : e.args[i] = "--repo" })

\* for a call with a repository URL: no alias means --repo URL once and the
\* chart as given, a failing resolver means an error and no helm run
NoAliasCases(lookup) ==
    /\ lookup.out = "" =>
          /\ Len(HelmRuns) = 1
          /\ ChartArg(HelmRuns[1]) = call.opts.Chart
          /\ RepoFlags(HelmRuns[1]) = 1
          /\ \E i \in 1..(Len(HelmRuns[1].args) - 1) :
                /\ HelmRuns[1].args[i] = "--repo"
                /\ HelmRuns[1].args[i + 1] = call.opts.Repo
    /\ lookup.out = "error" => HelmRuns = << >> /\ ret.err # NoError

\* Template called from TemplateWithCRDs does not consult the resolver
NoLookupInTemplate ==
    call.op = "TemplateWithCRDs" =>
        \A i \in 1..Len(events) :
            events[i].name = "Template" =>
                \A j \in (i + 1)..Len(events) : events[j].name # "FindRepoNameByURL"

StageNames ==
    { "os.MkdirTemp", "Pull", "os.Stat", "filepath.Walk", "Template",
      "strings.Join", "DecodeMaps", "noNils" }

\* the stages run so far, in order
StagesRun == SelectSeq(events, LAMBDA e : e.name \in StageNames)

\* the place of a stage in the order the claim gives
ClaimedRank(name) ==
    CASE name = "os.MkdirTemp" -> 1
      [] name = "Pull" -> 2
      [] name = "Template" -> 3
      [] name \in { "os.Stat", "filepath.Walk" } -> 4
      [] name = "strings.Join" -> 5
      [] name = "DecodeMaps" -> 6
      [] name = "noNils" -> 7

\* the place of a stage in the order of the code
Rank(name) ==
    CASE name = "os.MkdirTemp" -> 1
      [] name = "Pull" -> 2
      [] name = "os.Stat" -> 3
      [] name = "filepath.Walk" -> 4
      [] name = "Template" -> 5
      [] name = "strings.Join" -> 6
      [] name = "DecodeMaps" -> 7
      [] name = "noNils" -> 8

\* the event of the stage a failed call returned from
StageEvent(stage) ==
    CASE stage = "mkdir" -> "os.MkdirTemp"
      [] stage = "pull" -> "Pull"
      [] stage = "stat" -> "os.Stat"
      [] stage = "walk" -> "filepath.Walk"
      [] stage = "template" -> "Template"
      [] stage = "decode" -> "DecodeMaps"

\* a failed call ran no stage after the one that failed
StopsAtFailure ==
    (Returned /\ ret.err # NoError) =>
        StagesRun[Len(StagesRun)].name = StageEvent(local.stage)

\* C18: in a TemplateWithCRDs call the Templater is invoked before the crds
\* directory is enumerated, then come concatenation, decoding and projection,
\* nil filtering; a failing stage returns without a later stage running.
C18_TemplaterBeforeCrds ==
    call.op = "TemplateWithCRDs" =>
        /\ \A i, j \in 1..Len(StagesRun) :
              i < j => ClaimedRank(StagesRun[i].name) <= ClaimedRank(StagesRun[j].name)
        /\ StopsAtFailure

\* C18, amended: in a TemplateWithCRDs call the crds directory is looked up
\* and walked first, then the Templater is invoked, then come concatenation,
\* decoding and projection, nil filtering, each stage at most once; a failing
\* stage returns without a later stage running, and a call that succeeds
\* has run the Templater and every stage after it.
C18_CrdsBeforeTemplater ==
    call.op = "TemplateWithCRDs" =>
        /\ \A i, j \in 1..Len(StagesRun) :
              i < j => Rank(StagesRun[i].name) < Rank(StagesRun[j].name)
        /\ StopsAtFailure
        /\ (Returned /\ ret.err = NoError) =>
              \A n \in { "os.Stat", "Template", "strings.Join", "DecodeMaps", "noNils" } :
                  \E i \in 1..Len(StagesRun) : StagesRun[i].name = n

\* a call that walked a crds directory, ran the Templater and succeeded
C18_Witness ==
    /\ Returned /\ ret.err = NoError
    /\ \E i, j \in 1..Len(StagesRun) :
          /\ StagesRun[i].name = "filepath.Walk"
          /\ StagesRun[j].name = "Template"
          /\ i < j
    /\ local.crds # << >>

----------------------------------------------------------------------------
(* package logger *)

\* goroutines calling into the package at the same time
NumGoroutines == 2

Goroutines == 1..NumGoroutines

\* the exported functions; Tracef, Traceln and the like differ from Trace
\* in the formatting of the message only
LogFns == { "Trace", "Debug", "Info", "Warn", "Error", "Fatal", "Panic" }

LevelFns == { "SetLevelDebug", "SetLevelInfo" }

\* the stream the function hands to logrus.SetOutput
StreamOf(fn) ==
    IF fn \in { "Trace", "Debug", "Info", "Warn" } THEN "stdout" ELSE "stderr"

\* logrus.IsLevelEnabled: the levels from Panic up to the logger's level
Enabled(fn, level) ==
    \/ fn \in { "Panic", "Fatal", "Error", "Warn", "Info" }
    \/ fn = "Debug" /\ level = "debug"

\* variant: the mutex is not taken
MutexLockNone(l, g) == l

\* lock.Lock() by goroutine g, the mutex being free
MutexLock(l, g) == g

\* os.Exit has been called
Exited == \E g \in Goroutines : procs[g].pc = "exited"

InitLogger ==
    /\ input = EmptyText
    /\ heap = << >>
    /\ heap0 = << >>
    /\ call = NoCall
    /\ ret = NoRet
    /\ ret2 = NoRet
    /\ HelmIdle
    /\ lock = 0
    /\ logrus = [out |-> "stdout", level |-> "info"]
    /\ procs = [g \in Goroutines |-> [fn |-> "none", pc |-> "idle"]]
    /\ written = << >>

\* goroutine g calls one of the functions
LoggerCall(g) ==
    /\ ~Exited
    /\ procs[g].pc = "idle"
    /\ \E fn \in LogFns \cup LevelFns :
          procs' = [procs EXCEPT ![g] = [fn |-> fn, pc |-> "lock"]]
    /\ UNCHANGED << input, heap, heap0, call, ret, ret2, helmVars, lock, logrus, written >>

\* lock.Lock(); defer lock.Unlock()
LockStep(g) ==
    /\ ~Exited
    /\ procs[g].pc = "lock"
    /\ lock = 0
    /\ lock' = MutexLock(lock, g)
    /\ procs' = [procs EXCEPT ![g].pc =
                    IF procs[g].fn \in LevelFns THEN "level" ELSE "output"]
    /\ UNCHANGED << input, heap, heap0, call, ret, ret2, helmVars, logrus, written >>

\* logrus.SetLevel
SetLevelStep(g) ==
    /\ ~Exited
    /\ procs[g].pc = "level"
    /\ logrus' = [logrus EXCEPT !.level =
                     IF procs[g].fn = "SetLevelDebug" THEN "debug" ELSE "info"]
    /\ procs' = [procs EXCEPT ![g].pc = "unlock"]
    /\ UNCHANGED << input, heap, heap0, call, ret, ret2, helmVars, lock, written >>

\* logrus.SetOutput
SetOutputStep(g) ==
    /\ ~Exited
    /\ procs[g].pc = "output"
    /\ logrus' = [logrus EXCEPT !.out = StreamOf(procs[g].fn)]
    /\ procs' = [procs EXCEPT ![g].pc = "log"]
    /\ UNCHANGED << input, heap, heap0, call, ret, ret2, helmVars, lock, written >>

\* logrus.Trace ... logrus.Panic: the message goes to the logger's output if
\* its level is enabled; Fatal then exits the process, Panic panics
LogStep(g) ==
    /\ ~Exited
    /\ procs[g].pc = "log"
    /\ written' = IF Enabled(procs[g].fn, logrus.level)
                  THEN Append(written, [g |-> g, fn |-> procs[g].fn,
                                        stream |-> logrus.out])
                  ELSE written
    /\ procs' = [procs EXCEPT ![g].pc =
                    CASE procs[g].fn = "Fatal" -> "exited"
                      [] procs[g].fn = "Panic" -> "unwind"
                      [] OTHER -> "unlock"]
    /\ UNCHANGED << input, heap, heap0, call, ret, ret2, helmVars, lock, logrus >>

\* the deferred lock.Unlock(), on return and on panic
UnlockStep(g) ==
    /\ ~Exited
    /\ procs[g].pc \in { "unlock", "unwind" }
    /\ lock' = 0
    /\ procs' = [procs EXCEPT ![g].pc =
                    IF procs[g].pc = "unwind" THEN "panicked" ELSE "returned"]
    /\ UNCHANGED << input, heap, heap0, call, ret, ret2, helmVars, logrus, written >>

NextLogger ==
    \E g \in Goroutines :
        \/ LoggerCall(g)
        \/ LockStep(g)
        \/ SetLevelStep(g)
        \/ SetOutputStep(g)
        \/ LogStep(g)
        \/ UnlockStep(g)

SpecLogger == InitLogger /\ [][NextLogger]_vars

\* goroutine g is between its Lock and its Unlock
InCall(g) == procs[g].pc \in { "level", "output", "log", "unlock", "unwind" }

====
